---------------------------- MODULE Spec2Model ----------------------------
(***************************************************************************)
(* Model of src/app.py: the "Gene Woo Fallback" decision service.          *)
(*                                                                         *)
(* Python values are modelled as records tagged with their kind, so that   *)
(* None, str, int, float and dict stay distinguishable.  Python strings    *)
(* are TLA+ strings (characters are read with SubSeq), so the regular      *)
(* expressions and the keyword search of the source run on real text.      *)
(*                                                                         *)
(* Three specifications share the variables:                               *)
(*   SpecAmount  parse_amount applied to character-level texts             *)
(*   SpecEngine  _build_response applied to (payload, text, name)          *)
(*   Spec        the HTTP handlers, from request to background forward     *)
(***************************************************************************)
EXTENDS Integers, Sequences, FiniteSets, TLC

VARIABLES
    pc,                 \* position of the request being served
    endpoint,           \* route of the request being served
    authorization,      \* its Authorization header
    body,               \* the request body (Unread before req.json())
    payload,            \* payload as _parse returns it
    text,               \* message.text as _parse returns it
    name,               \* lead.name as _parse returns it
    parsed,             \* result of parse_amount (SpecAmount)
    decision,           \* result of _build_response
    response,           \* what the caller receives
    tasks,              \* BackgroundTasks queued for after the response
    post,               \* outcome of the outbound webhook POST
    server_error,       \* an exception escaped to the ASGI server
    WOO_WEBHOOK_URL,    \* configuration read at import
    httpx               \* the optional httpx module, or NoModule

vars == << pc, endpoint, authorization, body, payload, text, name, parsed, decision,
           response, tasks, post, server_error, WOO_WEBHOOK_URL, httpx >>

---------------------------------------------------------------------------
(* Bounds of the model *)

\* longest character-level text given to parse_amount in SpecAmount
MaxLen == 3

\* most vocabulary phrases in a message text in SpecEngine
MaxWords == 2

---------------------------------------------------------------------------
(* Configuration (environment defaults) *)

API_KEY == "dev-key"
DEBT_HIGH == 8000
SECONDARY_LOW == 6000
MID_APPT_LOW == 5000
MID_APPT_HIGH == 7000
CAMPAIGN_NAME == "1st Trade Scheduled"

AUTO_ESCALATE ==
    { "chargeback", "refund", "billing", "attorney", "lawyer",
      "levy", "lien", "garnish", "garnishment", "lawsuit", "complaint",
      "harassment" }

---------------------------------------------------------------------------
(* Python values *)

None == [kind |-> "none"]
PyStr(s) == [kind |-> "str", s |-> s]
PyInt(n) == [kind |-> "int", n |-> n]
\* a float whole + frac/10 with whole >= 0
PyFloat(whole, frac) == [kind |-> "float", whole |-> whole, frac |-> frac]
PyDict(items) == [kind |-> "dict", items |-> items]
EmptyDict == [kind |-> "dict", items |-> << >>]

\* truth value of a Python object, as `not x` and `x or y` use it
Truthy(v) ==
    CASE v.kind = "none"  -> FALSE
      [] v.kind = "str"   -> v.s # ""
      [] v.kind = "int"   -> v.n # 0
      [] v.kind = "float" -> v.whole # 0 \/ v.frac # 0
      [] v.kind = "dict"  -> DOMAIN v.items # {}

\* x or y
Or(x, y) == IF Truthy(x) THEN x ELSE y

\* d.get(k, default) on a dict
Get(d, k, default) == IF k \in DOMAIN d.items THEN d.items[k] ELSE default

---------------------------------------------------------------------------
(* Characters and str methods *)

Digits == { "0", "1", "2", "3", "4", "5", "6", "7", "8", "9" }
LowerLetters ==
    { "a", "b", "c", "d", "e", "f", "g", "h", "i", "j", "k", "l", "m",
      "n", "o", "p", "q", "r", "s", "t", "u", "v", "w", "x", "y", "z" }
ToLower ==
    [ A |-> "a", B |-> "b", C |-> "c", D |-> "d", E |-> "e", F |-> "f",
      G |-> "g", H |-> "h", I |-> "i", J |-> "j", K |-> "k", L |-> "l",
      M |-> "m", N |-> "n", O |-> "o", P |-> "p", Q |-> "q", R |-> "r",
      S |-> "s", T |-> "t", U |-> "u", V |-> "v", W |-> "w", X |-> "x",
      Y |-> "y", Z |-> "z" ]
UpperLetters == DOMAIN ToLower
Whitespace == { " ", "\t", "\n" }

CharAt(s, i) == SubSeq(s, i, i)
IsDigit(c) == c \in Digits
IsSpace(c) == c \in Whitespace
\* \w of the re module
WordChars == LowerLetters \cup UpperLetters \cup Digits \cup { "_" }
IsWord(c) == c \in WordChars

\* str.lower()
RECURSIVE lower(_)
lower(s) ==
    IF s = "" THEN ""
    ELSE (IF Head(s) \in UpperLetters THEN ToLower[Head(s)] ELSE Head(s))
         \o lower(Tail(s))

\* str.replace(old, "") for a one-character old
RECURSIVE remove(_, _)
remove(s, old) ==
    IF s = "" THEN ""
    ELSE (IF Head(s) = old THEN "" ELSE Head(s)) \o remove(Tail(s), old)

\* str.lstrip(), str.rstrip(), str.strip() on whitespace
RECURSIVE lstrip(_)
lstrip(s) == IF s # "" /\ IsSpace(Head(s)) THEN lstrip(Tail(s)) ELSE s
RECURSIVE rstrip(_)
rstrip(s) ==
    IF s # "" /\ IsSpace(CharAt(s, Len(s)))
    THEN rstrip(SubSeq(s, 1, Len(s) - 1)) ELSE s
strip(s) == rstrip(lstrip(s))

\* str.lstrip(chars) for a one-character chars
RECURSIVE lstrip_char(_, _)
lstrip_char(s, c) ==
    IF s # "" /\ Head(s) = c THEN lstrip_char(Tail(s), c) ELSE s

DigitValue ==
    [ d \in Digits |->
        CASE d = "0" -> 0 [] d = "1" -> 1 [] d = "2" -> 2 [] d = "3" -> 3
          [] d = "4" -> 4 [] d = "5" -> 5 [] d = "6" -> 6 [] d = "7" -> 7
          [] d = "8" -> 8 [] d = "9" -> 9 ]

\* int(s) for a non-empty string of decimal digits
RECURSIVE int(_)
int(s) ==
    IF Len(s) = 1 THEN DigitValue[s]
    ELSE 10 * int(SubSeq(s, 1, Len(s) - 1)) + DigitValue[CharAt(s, Len(s))]

\* k in t
Contains(t, k) ==
    \E i \in 1 .. (Len(t) - Len(k) + 1) : SubSeq(t, i, i + Len(k) - 1) = k

\* first index >= i of t whose character fails P (Len(t)+1 if none)
RECURSIVE SpanEnd(_, _, _)
SpanEnd(t, i, chars) ==
    IF i <= Len(t) /\ CharAt(t, i) \in chars THEN SpanEnd(t, i + 1, chars)
    ELSE i

---------------------------------------------------------------------------
(* Helpers of app.py *)

\* has_any without the lower(): the search is case-sensitive
has_any_case_sensitive(txt, keywords) ==
    LET t == Or(txt, PyStr("")).s
    IN  \E k \in keywords : Contains(t, k)

\* has_any(text, keywords)
has_any(txt, keywords) ==
    LET t == lower(Or(txt, PyStr("")).s)
    IN  \E k \in keywords : Contains(t, k)

NoMatch == [matched |-> FALSE]

\* re.match of (\$?\d+)\s*(k)? at position i of t
AmountMatchAt(t, i) ==
    LET d  == IF CharAt(t, i) = "$" THEN i + 1 ELSE i
        de == SpanEnd(t, d, Digits)
        se == SpanEnd(t, de, Whitespace)
    IN  IF d <= Len(t) /\ de > d
        THEN [ matched |-> TRUE,
               g1 |-> SubSeq(t, i, de - 1),
               g2 |-> IF se <= Len(t) /\ CharAt(t, se) = "k"
                      THEN PyStr("k") ELSE None ]
        ELSE NoMatch

\* re.search(r'(\$?\d+)\s*(k)?', t): the leftmost match
AmountSearch(t) ==
    LET starts == { i \in 1 .. Len(t) : AmountMatchAt(t, i).matched }
    IN  IF starts = {} THEN NoMatch
        ELSE AmountMatchAt(t, CHOOSE i \in starts : \A j \in starts : i <= j)

\* parse_amount without the lower(): "12K" keeps its upper-case suffix
parse_amount_case_sensitive(txt) ==
    IF ~Truthy(txt) THEN None
    ELSE LET t == strip(remove(txt.s, ","))
             m == AmountSearch(t)
         IN  IF ~m.matched THEN None
             ELSE LET num == int(lstrip_char(m.g1, "$"))
                  IN  IF Truthy(m.g2) THEN PyInt(num * 1000) ELSE PyInt(num)

\* parse_amount(text)
parse_amount(txt) ==
    IF ~Truthy(txt) THEN None
    ELSE LET t == strip(remove(lower(txt.s), ","))
             m == AmountSearch(t)
         IN  IF ~m.matched THEN None
             ELSE LET num == int(lstrip_char(m.g1, "$"))
                  IN  IF Truthy(m.g2) THEN PyInt(num * 1000) ELSE PyInt(num)

(* Regular expressions: re.search as the set of positions a match can end *)

Lit(s) == [op |-> "lit", s |-> s]
WordB == [op |-> "b"]
Spaces1 == [op |-> "s+"]
Spaces0 == [op |-> "s*"]
Opt(r) == [op |-> "opt", r |-> r]
Alt(rs) == [op |-> "alt", rs |-> rs]
Cat(rs) == [op |-> "cat", rs |-> rs]

\* \b holds at position i: exactly one of t[i-1], t[i] is a word character
AtWordBoundary(t, i) ==
    (i > 1 /\ IsWord(CharAt(t, i - 1))) # (i <= Len(t) /\ IsWord(CharAt(t, i)))

\* the positions where a match of r that starts at a position of from can end
RECURSIVE Match(_, _, _)
Match(r, t, from) ==
    IF from = {} THEN {}
    ELSE CASE r.op = "lit" ->
                { i + Len(r.s) :
                    i \in { j \in from : /\ j + Len(r.s) - 1 <= Len(t)
                                         /\ SubSeq(t, j, j + Len(r.s) - 1) = r.s } }
           [] r.op = "b" -> { i \in from : AtWordBoundary(t, i) }
           [] r.op = "s+" ->
                { j \in 1 .. Len(t) + 1 :
                    \E i \in from : i < j /\ SpanEnd(t, i, Whitespace) >= j }
           [] r.op = "s*" ->
                { j \in 1 .. Len(t) + 1 :
                    \E i \in from : i <= j /\ SpanEnd(t, i, Whitespace) >= j }
           [] r.op = "opt" -> from \cup Match(r.r, t, from)
           [] r.op = "alt" ->
                UNION { Match(r.rs[n], t, from) : n \in 1 .. Len(r.rs) }
           [] r.op = "cat" ->
                IF Len(r.rs) = 0 THEN from
                ELSE Match(Cat(Tail(r.rs)), t, Match(Head(r.rs), t, from))

\* re.search(p, t) is not None
re_search(p, t) == Match(p, t, 1 .. Len(t) + 1) # {}

---------------------------------------------------------------------------
(* The detectors of app.py *)

UnfiledPatterns ==
    { \* \bunfiled\b
      Cat(<< WordB, Lit("unfiled"), WordB >>),
      \* \bmissing\s+(?:tax\s+)?years?\b
      Cat(<< WordB, Lit("missing"), Spaces1,
             Opt(Cat(<< Lit("tax"), Spaces1 >>)),
             Lit("year"), Opt(Lit("s")), WordB >>),
      \* \b(?:not|haven'?t|didn'?t)\s+file(d)?\b
      Cat(<< WordB,
             Alt(<< Lit("not"),
                    Cat(<< Lit("haven"), Opt(Lit("'")), Lit("t") >>),
                    Cat(<< Lit("didn"), Opt(Lit("'")), Lit("t") >>) >>),
             Spaces1, Lit("file"), Opt(Lit("d")), WordB >>),
      \* \bbehind\s+on\s+filing\b
      Cat(<< WordB, Lit("behind"), Spaces1, Lit("on"), Spaces1,
             Lit("filing"), WordB >>),
      \* \bback\s+(?:returns?|years?)\b
      Cat(<< WordB, Lit("back"), Spaces1,
             Alt(<< Cat(<< Lit("return"), Opt(Lit("s")) >>),
                    Cat(<< Lit("year"), Opt(Lit("s")) >>) >>),
             WordB >>) }

NoUnfiledPatterns ==
    { \* \bno\s+(?:missing\s+)?(?:tax\s+)?years?\b
      Cat(<< WordB, Lit("no"), Spaces1,
             Opt(Cat(<< Lit("missing"), Spaces1 >>)),
             Opt(Cat(<< Lit("tax"), Spaces1 >>)),
             Lit("year"), Opt(Lit("s")), WordB >>),
      \* \ball\s+(?:returns?|years?)\s+filed\b
      Cat(<< WordB, Lit("all"), Spaces1,
             Alt(<< Cat(<< Lit("return"), Opt(Lit("s")) >>),
                    Cat(<< Lit("year"), Opt(Lit("s")) >>) >>),
             Spaces1, Lit("filed"), WordB >>),
      \* \bup\s*to\s*date\s+on\s+filing\b
      Cat(<< WordB, Lit("up"), Spaces0, Lit("to"), Spaces0, Lit("date"),
             Spaces1, Lit("on"), Spaces1, Lit("filing"), WordB >>),
      \* \beverything\s+is\s+filed\b
      Cat(<< WordB, Lit("everything"), Spaces1, Lit("is"), Spaces1,
             Lit("filed"), WordB >>),
      \* \ball\s+filed\b
      Cat(<< WordB, Lit("all"), Spaces1, Lit("filed"), WordB >>),
      \* \bcurrent\s+on\s+filing\b
      Cat(<< WordB, Lit("current"), Spaces1, Lit("on"), Spaces1,
             Lit("filing"), WordB >>) }

StateIssuePatterns ==
    { \* \bstate\s+tax(es)?\b
      Cat(<< WordB, Lit("state"), Spaces1, Lit("tax"), Opt(Lit("es")),
             WordB >>),
      \* \bdepartment\s+of\s+revenue\b
      Cat(<< WordB, Lit("department"), Spaces1, Lit("of"), Spaces1,
             Lit("revenue"), WordB >>),
      \* \bdor\b
      Cat(<< WordB, Lit("dor"), WordB >>),
      \* \bfranchise\s+tax\s+board\b
      Cat(<< WordB, Lit("franchise"), Spaces1, Lit("tax"), Spaces1,
             Lit("board"), WordB >>),
      \* \bftb\b
      Cat(<< WordB, Lit("ftb"), WordB >>),
      \* \bedd\b
      Cat(<< WordB, Lit("edd"), WordB >>),
      \* \bdtf\b
      Cat(<< WordB, Lit("dtf"), WordB >>) }

\* detect_unfiled(text)
detect_unfiled(txt) ==
    IF ~Truthy(txt) THEN FALSE
    ELSE LET t == lower(txt.s)
         IN  \E p \in UnfiledPatterns : re_search(p, t)

\* detect_no_unfiled(text)
detect_no_unfiled(txt) ==
    IF ~Truthy(txt) THEN FALSE
    ELSE LET t == lower(txt.s)
         IN  \E p \in NoUnfiledPatterns : re_search(p, t)

\* detect_state_issue(text)
detect_state_issue(txt) ==
    IF ~Truthy(txt) THEN FALSE
    ELSE LET t == lower(txt.s)
         IN  \E p \in StateIssuePatterns : re_search(p, t)

\* the first whitespace-delimited token of a string that starts with one
RECURSIVE FirstToken(_)
FirstToken(s) ==
    IF s = "" \/ IsSpace(Head(s)) THEN ""
    ELSE Head(s) \o FirstToken(Tail(s))

\* first_name(name)
first_name(nm) ==
    LET n == strip(Or(nm, PyStr("")).s)
    IN  IF n # "" THEN FirstToken(n) ELSE "there"

---------------------------------------------------------------------------
(* _build_response *)

\* state_flag with "no" for a text that names no state agency
state_flag_no(txt) == IF detect_state_issue(txt) THEN "yes" ELSE "no"

\* "yes" if detect_state_issue(text) else "unknown"
state_flag(txt) == IF detect_state_issue(txt) THEN "yes" ELSE "unknown"

\* context.get("last_amount"), made an int when it is a float or an int
last_amount(pl) ==
    LET context == Or(Get(Or(pl, EmptyDict), "context", None), EmptyDict)
        la == Get(context, "last_amount", None)
    IN  CASE la.kind = "int"   -> la
          [] la.kind = "float" -> PyInt(la.whole)
          [] OTHER             -> la

\* amt_for_decision that ignores the context amount
amt_for_decision_message_only(amount, la) == amount

\* amount if amount is not None else last_amount
amt_for_decision(amount, la) == IF amount # None THEN amount ELSE la

\* amt_for_decision < SECONDARY_LOW raises TypeError unless it is an int
ComparisonRaises(amt) == amt # None /\ amt.kind # "int"

\* SelfHelp with <= in place of <
SelfHelp_inclusive(amt, no_unfiled) ==
    amt # None /\ amt.n <= SECONDARY_LOW /\ no_unfiled

\* (amt_for_decision is not None) and (amt_for_decision < SECONDARY_LOW)
\* and no_unfiled
SelfHelp(amt, no_unfiled) ==
    amt # None /\ amt.n < SECONDARY_LOW /\ no_unfiled

\* OverThreshold with > in place of >=
OverThreshold_exclusive(amount) == amount.n > DEBT_HIGH

\* amount >= DEBT_HIGH
OverThreshold(amount) == amount.n >= DEBT_HIGH

\* MidWithUnfiled with an exclusive upper end
MidWithUnfiled_exclusive(amount, unfiled) ==
    MID_APPT_LOW <= amount.n /\ amount.n < MID_APPT_HIGH /\ unfiled

\* MID_APPT_LOW <= amount <= MID_APPT_HIGH and unfiled
MidWithUnfiled(amount, unfiled) ==
    MID_APPT_LOW <= amount.n /\ amount.n <= MID_APPT_HIGH /\ unfiled

\* amount < SECONDARY_LOW
UnderSecondary(amount) == amount.n < SECONDARY_LOW

BookingWorkflow ==
    [ schedule_in_woo |-> TRUE,
      campaign |-> [name |-> CAMPAIGN_NAME, action |-> "switch"],
      crm |-> [system |-> "Velocify", status |-> "AI Appointment Scheduled"] ]

EscalateDecision(nm) ==
    [ action |-> "escalate",
      reply_text |-> None,
      notes |-> "auto_escalate_keyword",
      escalation |->
        [ summary |-> "Sensitive keyword detected (billing/legal/etc.)",
          suggested |-> "Hi " \o first_name(nm)
              \o ", I'm looping a specialist in now. What's the best number/time today?" ],
      qualified |-> [ band |-> "unknown", has_unfiled_years |-> "unknown",
                      state_issue |-> "unknown" ] ]

SelfHelpDecision(nm, amt, flag) ==
    [ action |-> "reply",
      reply_text |-> PyStr("Hi " \o first_name(nm)
          \o ", due to the amount you owe the fees for service may outweigh the savings. "
          \o "I recommend contacting the IRS directly and requesting a First-Time Penalty Abatement, then the Fresh Start "
          \o "Streamlined Installment Agreement. That will usually be the smallest payment without submitting full financials "
          \o "to the IRS with the best terms. Below is the IRS contact information (also on your latest notice). Thank you.\n\n"
          \o "www.irs.gov\n800-829-1040"),
      notes |-> "disqualify_self_help",
      route |-> "irs_self_help",
      workflow |->
        [ crm |-> [system |-> "Velocify", status |-> "Self Help Provided"] ],
      qualified |-> [ band |-> "under_secondary", amount |-> amt.n,
                      has_unfiled_years |-> "no", state_issue |-> flag ] ]

OverThresholdDecision(amount, flag) ==
    [ action |-> "qualified",
      reply_text |-> PyStr("Great, thanks - we will get you scheduled now to review options, including IRS Fresh Start savings programs, and check any state issues if that applies."),
      notes |-> "auto_qualified_by_amount",
      route |-> "woo_booking",
      handoff |-> [ to |-> "woo", type |-> "appointment_request",
                    reason |-> "over_threshold" ],
      workflow |-> BookingWorkflow,
      qualified |-> [ band |-> "over_threshold", amount |-> amount.n,
                      has_unfiled_years |-> "unknown", state_issue |-> flag ] ]

MidWithUnfiledDecision(amount, flag) ==
    [ action |-> "qualified",
      reply_text |-> PyStr("Got it - we will get you scheduled now to review options, including IRS Fresh Start savings programs, and any state issues if that applies."),
      notes |-> "qualified_mid_with_unfiled",
      route |-> "woo_booking",
      handoff |-> [ to |-> "woo", type |-> "appointment_request",
                    reason |-> "mid_with_unfiled" ],
      workflow |-> BookingWorkflow,
      qualified |-> [ band |-> "mid_with_unfiled", amount |-> amount.n,
                      has_unfiled_years |-> "yes", state_issue |-> flag ] ]

UnderSecondaryDecision(amount, flag) ==
    [ action |-> "reply",
      reply_text |-> PyStr("Thanks. Do you have any missing tax years that need to be filed? - Gene, Lexington Tax Group"),
      notes |-> "followup_missing_years_under_threshold",
      qualified |-> [ band |-> "under_secondary", amount |-> amount.n,
                      has_unfiled_years |-> "unknown", state_issue |-> flag ] ]

MidBandDecision(amount, flag) ==
    [ action |-> "reply",
      reply_text |-> PyStr("Thanks for the details - we will get you scheduled for a quick 10-minute call to review options, including IRS Fresh Start savings programs, and any state issues if that applies."),
      notes |-> "mid_band_send_booking",
      route |-> "woo_booking",
      handoff |-> [ to |-> "woo", type |-> "appointment_request",
                    reason |-> "mid_band" ],
      workflow |-> BookingWorkflow,
      qualified |-> [ band |-> "mid_band", amount |-> amount.n,
                      has_unfiled_years |-> "unknown", state_issue |-> flag ] ]

DefaultClarifyDecision ==
    [ action |-> "reply",
      reply_text |-> PyStr("Thanks for the note. Quick check: how much does the IRS say you owe, "
          \o "and do you have any missing tax years that need to be filed? We can also discuss IRS Fresh Start savings options "
          \o "and any state issues if that applies. - Gene, Lexington Tax Group"),
      notes |-> "primary_clarify",
      qualified |-> [ band |-> "unknown", has_unfiled_years |-> "unknown",
                      state_issue |-> "unknown" ] ]

\* the exception a call ends with instead of a decision
Raised(exception) == [raised |-> exception]

\* steps 2 to 5 of _build_response, once the signals are extracted
Decide(nm, amount, unfiled, no_unfiled, flag, la) ==
    LET amt == amt_for_decision(amount, la)
    IN  IF ComparisonRaises(amt) THEN Raised("TypeError")
        ELSE IF SelfHelp(amt, no_unfiled)
             THEN SelfHelpDecision(nm, amt, flag)
        ELSE IF amount # None
             THEN IF OverThreshold(amount)
                  THEN OverThresholdDecision(amount, flag)
                  ELSE IF MidWithUnfiled(amount, unfiled)
                  THEN MidWithUnfiledDecision(amount, flag)
                  ELSE IF UnderSecondary(amount)
                  THEN UnderSecondaryDecision(amount, flag)
                  ELSE MidBandDecision(amount, flag)
        ELSE DefaultClarifyDecision

\* _build_response(payload, text, name)
_build_response(pl, txt, nm) ==
    IF has_any(txt, AUTO_ESCALATE) THEN EscalateDecision(nm)
    ELSE Decide(nm, parse_amount(txt), detect_unfiled(txt),
                detect_no_unfiled(txt), state_flag(txt), last_amount(pl))

---------------------------------------------------------------------------
(* Values of the variables outside a request *)

Unread == [kind |-> "unread"]
NoDecision == [pending |-> TRUE]
NoResponse == [status |-> 0]
NoModule == "None"
NoAmount == [kind |-> "pending"]

---------------------------------------------------------------------------
(* SpecAmount: parse_amount on character-level texts *)

AmountAlphabet == { "$", "0", "1", "2", ",", "k", "K", " ", "x" }

RECURSIVE StringsUpTo(_)
StringsUpTo(n) ==
    IF n = 0 THEN { "" }
    ELSE LET shorter == StringsUpTo(n - 1)
         IN  shorter \cup { s \o c : s \in shorter, c \in AmountAlphabet }

\* the formats of parse_amount's docstring
DocstringTexts == { "12000", "12,000", "12k", "$12k", "$12,000" }

AmountTexts ==
    { PyStr(s) : s \in StringsUpTo(MaxLen) \cup DocstringTexts } \cup { None }

InitAmount ==
    /\ pc = "amount_call"
    /\ text \in AmountTexts
    /\ parsed = NoAmount
    /\ endpoint = "" /\ authorization = None /\ body = Unread
    /\ payload = Unread
    /\ name = PyStr("there") /\ decision = NoDecision /\ response = NoResponse
    /\ tasks = << >> /\ post = "none" /\ server_error = FALSE
    /\ WOO_WEBHOOK_URL = "" /\ httpx = NoModule

ParseAmountCall ==
    /\ pc = "amount_call"
    /\ parsed' = parse_amount(text)
    /\ pc' = "amount_done"
    /\ UNCHANGED << endpoint, authorization, body, payload, text, name, decision,
                    response, tasks, post, server_error, WOO_WEBHOOK_URL,
                    httpx >>

NextAmount == ParseAmountCall

SpecAmount == InitAmount /\ [][NextAmount]_vars

---------------------------------------------------------------------------
(* SpecEngine: _build_response on messages built from a vocabulary *)

Vocabulary ==
    { "4999", "5k", "6000", "$7,000", "7001", "7999", "8K",
      "unfiled", "all filed", "no missing years",
      "state taxes", "Refund", "client" }

\* " ".join(words)
RECURSIVE Join(_)
Join(words) ==
    IF Len(words) = 0 THEN ""
    ELSE IF Len(words) = 1 THEN words[1]
    ELSE words[1] \o " " \o Join(Tail(words))

EngineTexts ==
    { PyStr(Join(ws)) :
        ws \in UNION { [1 .. n -> Vocabulary] : n \in 0 .. MaxWords } }
    \cup { None }

\* what a caller may send as context.last_amount
LastAmounts == { PyFloat(5999, 5), PyInt(6000), PyStr("4000") }

EnginePayloads ==
    { None }
    \cup { PyDict([context |-> PyDict([last_amount |-> la])]) :
             la \in LastAmounts }

EngineNames == { PyStr("there"), PyStr("Ann Lee") }

InitEngine ==
    /\ pc = "engine_call"
    /\ payload \in EnginePayloads
    /\ text \in EngineTexts
    /\ name \in EngineNames
    /\ decision = NoDecision
    /\ endpoint = "" /\ authorization = None /\ body = Unread
    /\ parsed = NoAmount
    /\ response = NoResponse /\ tasks = << >> /\ post = "none"
    /\ server_error = FALSE /\ WOO_WEBHOOK_URL = "" /\ httpx = NoModule

BuildResponseCall ==
    /\ pc = "engine_call"
    /\ decision' = _build_response(payload, text, name)
    /\ pc' = "engine_done"
    /\ UNCHANGED << endpoint, authorization, body, payload, text, name, parsed,
                    response, tasks, post, server_error, WOO_WEBHOOK_URL,
                    httpx >>

NextEngine == BuildResponseCall

SpecEngine == InitEngine /\ [][NextEngine]_vars

---------------------------------------------------------------------------
(* Spec: the HTTP handlers *)

\* _auth that lets a request without the header through
_auth_raises_if_present(auth) ==
    auth # None /\ auth # PyStr("Bearer " \o API_KEY)

\* _auth(authorization) raises HTTPException(401)
_auth_raises(auth) == auth # PyStr("Bearer " \o API_KEY)

\* _parse(req), given the value req.json() returned
_parse(json) ==
    LET lead == Or(Get(Or(json, EmptyDict), "lead", None), EmptyDict)
    IN  [ payload |-> json,
          name    |-> Or(Get(lead, "name", None), PyStr("there")),
          text    |-> Get(Or(Get(Or(json, EmptyDict), "message", None),
                             EmptyDict),
                          "text", PyStr("")) ]

\* decision.get("route") == "woo_booking" and WOO_WEBHOOK_URL
\* (FastAPI always injects background_tasks)
ShouldForward(d, url) ==
    /\ "route" \in DOMAIN d
    /\ d.route = "woo_booking"
    /\ url # ""

\* decision["forward_queued"] = True
WithForwardQueued(d) == d @@ [forward_queued |-> TRUE]

\* JSONResponse(decision)
JSONResponse(d) == [status |-> 200, body |-> d]

\* HTTPException(status_code=401, detail="Unauthorized") as the caller sees it
Unauthorized == [status |-> 401, body |-> [detail |-> "Unauthorized"]]

\* an exception that leaves the handler, as the caller sees it
InternalServerError == [status |-> 500, body |-> [detail |-> "Internal Server Error"]]

\* _post_to_woo_async returns before posting
PostSkipped(url, module) == url = "" \/ module = NoModule

\* _post_to_woo_async without its try/except
PostEscapes_uncaught(outcome) == outcome # "ok"

\* an exception of client.post leaves _post_to_woo_async: never, because of
\* `except Exception: pass`
PostEscapes(outcome) == FALSE

Endpoints == { "/gene/woofallback", "/gene/woofallback1" }

Authorizations ==
    { None, PyStr("Bearer dev-key"), PyStr("Bearer wrong"),
      PyStr("dev-key"), PyStr("bearer dev-key") }

\* a body that req.json() cannot decode
InvalidJSON == [kind |-> "invalid"]
Absent == [kind |-> "absent"]

\* a dict with the given key unless the value is Absent
Entry(k, v) == IF v = Absent THEN << >> ELSE (k :> v)

ServiceTexts ==
    { "I owe 9000", "6500 unfiled", "6500", "4000 all filed", "4000",
      "Refund please", "all filed", "state taxes" }

Leads ==
    { Absent, None, EmptyDict, PyDict([name |-> None]),
      PyDict([name |-> PyStr("")]), PyDict([name |-> PyStr("Ann Lee")]) }

Messages ==
    { Absent, None, EmptyDict, PyDict([text |-> None]),
      PyDict([text |-> PyStr("")]) }
    \cup { PyDict([text |-> PyStr(t)]) : t \in ServiceTexts }

Contexts ==
    { Absent, PyDict([last_amount |-> PyInt(4000)]),
      PyDict([last_amount |-> PyStr("4000")]) }

Bodies ==
    { PyDict(Entry("lead", l) @@ Entry("message", m) @@ Entry("context", c)) :
        l \in Leads, m \in Messages, c \in Contexts }
    \cup { None, InvalidJSON }

Init ==
    /\ pc = "idle"
    /\ endpoint = "" /\ authorization = None /\ body = Unread
    /\ payload = Unread /\ text = None /\ name = PyStr("there")
    /\ parsed = NoAmount /\ decision = NoDecision /\ response = NoResponse
    /\ tasks = << >> /\ post = "none" /\ server_error = FALSE
    /\ WOO_WEBHOOK_URL \in { "", "https://woo.example/hook" }
    /\ httpx \in { NoModule, "httpx" }

\* a request arrives at one of the decision endpoints
Request ==
    /\ pc = "idle"
    /\ \E ep \in Endpoints, auth \in Authorizations :
          /\ endpoint' = ep
          /\ authorization' = auth
    /\ pc' = "auth"
    /\ UNCHANGED << body, payload, text, name, parsed, decision, response,
                    tasks, post, server_error, WOO_WEBHOOK_URL, httpx >>

\* await _auth(authorization)
Authenticate ==
    /\ pc = "auth"
    /\ IF _auth_raises(authorization)
       THEN response' = Unauthorized /\ pc' = "responded"
       ELSE response' = response /\ pc' = "await_json"
    /\ UNCHANGED << endpoint, authorization, body, payload, text, name,
                    parsed, decision, tasks, post, server_error,
                    WOO_WEBHOOK_URL, httpx >>

\* req.json() raises: the exception leaves the handler
BodyUndecodable ==
    /\ pc = "await_json"
    /\ body' = InvalidJSON
    /\ response' = InternalServerError
    /\ server_error' = TRUE
    /\ pc' = "responded"
    /\ UNCHANGED << endpoint, authorization, payload, text, name, parsed,
                    decision, tasks, post, WOO_WEBHOOK_URL, httpx >>

\* the handler from the return of req.json() to its own return
HandleBody ==
    /\ pc = "await_json"
    /\ \E json \in Bodies \ { InvalidJSON } :
          LET p == _parse(json)
              d == _build_response(p.payload, p.text, p.name)
              forward == ShouldForward(d, WOO_WEBHOOK_URL)
              sent == IF forward THEN WithForwardQueued(d) ELSE d
          IN  /\ body' = json
              /\ payload' = p.payload
              /\ text' = p.text
              /\ name' = p.name
              /\ IF "raised" \in DOMAIN d
                 THEN /\ decision' = d
                      /\ response' = InternalServerError
                      /\ server_error' = TRUE
                      /\ tasks' = tasks
                 ELSE /\ decision' = sent
                      /\ response' = JSONResponse(sent)
                      /\ server_error' = server_error
                      /\ tasks' = IF forward
                                  THEN Append(tasks, [ func |-> "_post_to_woo_async",
                                                       payload |-> p.payload,
                                                       decision |-> sent ])
                                  ELSE tasks
    /\ pc' = "responded"
    /\ UNCHANGED << endpoint, authorization, parsed, post, WOO_WEBHOOK_URL,
                    httpx >>

Handler(ep) ==
    /\ endpoint = ep
    /\ (Authenticate \/ BodyUndecodable \/ HandleBody)

\* @app.post("/gene/woofallback")
woofallback == Handler("/gene/woofallback")

\* @app.post("/gene/woofallback1")
woofallback1 == Handler("/gene/woofallback1")

\* the response is out; the server starts _post_to_woo_async
StartForward ==
    /\ pc = "responded"
    /\ tasks # << >>
    /\ post = "none"
    /\ IF PostSkipped(WOO_WEBHOOK_URL, httpx)
       THEN post' = "skipped" /\ tasks' = Tail(tasks)
       ELSE post' = "sending" /\ tasks' = tasks
    /\ UNCHANGED << pc, endpoint, authorization, body, payload, text, name,
                    parsed, decision, response, server_error,
                    WOO_WEBHOOK_URL, httpx >>

PostOutcomes == { "ok", "transport_error", "timeout" }

\* await client.post(...) returns or raises
FinishForward ==
    /\ pc = "responded"
    /\ post = "sending"
    /\ \E outcome \in PostOutcomes :
          /\ post' = outcome
          /\ server_error' = (server_error \/ PostEscapes(outcome))
    /\ tasks' = Tail(tasks)
    /\ UNCHANGED << pc, endpoint, authorization, body, payload, text, name,
                    parsed, decision, response, WOO_WEBHOOK_URL, httpx >>

\* the request is over; nothing of it is kept
Complete ==
    /\ pc = "responded"
    /\ tasks = << >>
    /\ pc' = "idle"
    /\ endpoint' = "" /\ authorization' = None /\ body' = Unread
    /\ payload' = Unread /\ text' = None /\ name' = PyStr("there")
    /\ decision' = NoDecision /\ response' = NoResponse
    /\ post' = "none" /\ server_error' = FALSE
    /\ UNCHANGED << parsed, tasks, WOO_WEBHOOK_URL, httpx >>

Next ==
    \/ Request
    \/ woofallback
    \/ woofallback1
    \/ StartForward
    \/ FinishForward
    \/ Complete

Spec == Init /\ [][Next]_vars

---------------------------------------------------------------------------
(* What the claims read off a state *)

\* the text of the message as a string ("" when it is None)
TextOf(txt) == IF txt.kind = "str" THEN txt.s ELSE ""

\* k occurs in s at position i, letter case ignored
OccursAt(s, k, i) ==
    \A j \in 1 .. Len(k) :
        LET c == CharAt(s, i + j - 1)
        IN  (IF c \in UpperLetters THEN ToLower[c] ELSE c) = CharAt(k, j)

\* s contains one of the 12 escalation keywords, letter case ignored
HasEscalationKeyword(s) ==
    \E k \in AUTO_ESCALATE :
        \E i \in 1 .. (Len(s) - Len(k) + 1) : OccursAt(s, k, i)

\* the call returned a decision (it did not raise)
IsDecision(d) == "action" \in DOMAIN d

EngineDone == pc = "engine_done"

IsDefaultClarify(d) ==
    /\ IsDecision(d)
    /\ d.action = "reply"
    /\ d.notes = "primary_clarify"
    /\ d.qualified.band = "unknown"

---------------------------------------------------------------------------
(* C1 *)

\* C1: whenever the message text contains an escalation keyword (any letter
\* case), whatever the name, the amount, the filing phrases and the context,
\* _build_response returns action=escalate, reply_text=None and
\* notes=auto_escalate_keyword.
C1_EscalationDominates ==
    (EngineDone /\ HasEscalationKeyword(TextOf(text)))
        => /\ IsDecision(decision)
           /\ decision.action = "escalate"
           /\ decision.reply_text = None
           /\ decision.notes = "auto_escalate_keyword"

\* an upper-case keyword next to an amount over DEBT_HIGH, with a context
\* amount, escalates
C1_Witness ==
    /\ EngineDone
    /\ text = PyStr("8K Refund")
    /\ last_amount(payload) = PyInt(5999)
    /\ name = PyStr("Ann Lee")
    /\ decision.action = "escalate"

---------------------------------------------------------------------------
(* C2 *)

InMidBand(a) == a # None /\ MID_APPT_LOW <= a.n /\ a.n <= MID_APPT_HIGH

IsMidWithUnfiled(d) ==
    /\ IsDecision(d)
    /\ d.action = "qualified"
    /\ d.qualified.band = "mid_with_unfiled"
    /\ d.qualified.has_unfiled_years = "yes"
    /\ "route" \in DOMAIN d
    /\ d.route = "woo_booking"

\* C2 as stated: no escalation keyword, a parsed amount in 5000..7000 and the
\* unfiled detector true give the mid_with_unfiled qualified decision.
C2_AsStated ==
    ( /\ EngineDone
      /\ ~HasEscalationKeyword(TextOf(text))
      /\ InMidBand(parse_amount(text))
      /\ detect_unfiled(text) )
        => IsMidWithUnfiled(decision)

\* C2: no escalation keyword, a parsed amount in 5000..7000 and the unfiled
\* detector true give the mid_with_unfiled qualified decision, unless the
\* amount is below SECONDARY_LOW and the no-unfiled detector is true as well
\* (then the self-help rule, which comes first, fires).
C2_MidWithUnfiled ==
    ( /\ EngineDone
      /\ ~HasEscalationKeyword(TextOf(text))
      /\ InMidBand(parse_amount(text))
      /\ detect_unfiled(text)
      /\ ~(parse_amount(text).n < SECONDARY_LOW /\ detect_no_unfiled(text)) )
        => IsMidWithUnfiled(decision)

\* the upper end of the band, 7000, qualifies with an unfiled phrase
C2_Witness ==
    /\ EngineDone
    /\ text = PyStr("$7,000 unfiled")
    /\ IsMidWithUnfiled(decision)

---------------------------------------------------------------------------
(* C3 *)

\* C3 as stated: the default-clarify decision is returned exactly when there
\* is no escalation keyword and no amount is known, neither parsed from the
\* message nor supplied as context.last_amount.
C3_AsStated ==
    (EngineDone /\ IsDecision(decision))
        => ( IsDefaultClarify(decision)
               <=> /\ ~HasEscalationKeyword(TextOf(text))
                   /\ parse_amount(text) = None
                   /\ last_amount(payload) = None )

\* the self-help rule applies to the context amount
ContextSelfHelp(pl, txt) ==
    /\ last_amount(pl).kind = "int"
    /\ last_amount(pl).n < SECONDARY_LOW
    /\ detect_no_unfiled(txt)

\* C3: the default-clarify decision is returned exactly when there is no
\* escalation keyword, no amount is parsed from the message, and
\* context.last_amount is absent or null, or is a number to which the
\* self-help rule does not apply (it is >= SECONDARY_LOW or the no-unfiled
\* detector is false).
C3_DefaultClarify ==
    EngineDone
        => ( IsDefaultClarify(decision)
               <=> /\ ~HasEscalationKeyword(TextOf(text))
                   /\ parse_amount(text) = None
                   /\ last_amount(payload).kind \in { "none", "int" }
                   /\ ~ContextSelfHelp(payload, text) )

\* a context amount is known, and default-clarify is returned all the same
C3_Witness ==
    /\ EngineDone
    /\ text = PyStr("unfiled")
    /\ last_amount(payload) = PyInt(6000)
    /\ IsDefaultClarify(decision)

---------------------------------------------------------------------------
(* C4 *)

IsSelfHelp(d) == IsDecision(d) /\ d.notes = "disqualify_self_help"

\* the amount parsed from the message if there is one, else context.last_amount
EffectiveAmount(pl, txt) ==
    IF parse_amount(txt) # None THEN parse_amount(txt) ELSE last_amount(pl)

\* C4: without an escalation keyword, the self-help record (action=reply,
\* notes=disqualify_self_help, band=under_secondary, has_unfiled_years=no,
\* qualified.amount = effective amount) is returned exactly when the effective
\* amount is a number below SECONDARY_LOW and the no-unfiled detector is
\* true, whatever the unfiled detector says.
C4_SelfHelp ==
    (EngineDone /\ ~HasEscalationKeyword(TextOf(text)))
        => LET eff == EffectiveAmount(payload, text)
               applies == /\ eff.kind = "int"
                          /\ eff.n < SECONDARY_LOW
                          /\ detect_no_unfiled(text)
           IN  /\ IsSelfHelp(decision) <=> applies
               /\ applies =>
                    /\ decision.action = "reply"
                    /\ decision.qualified.band = "under_secondary"
                    /\ decision.qualified.has_unfiled_years = "no"
                    /\ decision.qualified.amount = eff.n

\* the amount comes from the context and both filing detectors are true
C4_Witness ==
    /\ EngineDone
    /\ text = PyStr("no missing years")
    /\ detect_unfiled(text) /\ detect_no_unfiled(text)
    /\ last_amount(payload) = PyInt(5999)
    /\ IsSelfHelp(decision)
    /\ decision.qualified.amount = 5999

---------------------------------------------------------------------------
(* C5 *)

IsOverThreshold(d) ==
    /\ IsDecision(d)
    /\ d.action = "qualified"
    /\ d.qualified.band = "over_threshold"

\* C5: without an escalation keyword, the decision is qualified/over_threshold
\* exactly when the amount parsed from the message is >= 8000, whatever the
\* filing phrases; without a parsed amount no decision is qualified.
C5_OverThreshold ==
    (EngineDone /\ ~HasEscalationKeyword(TextOf(text)))
        => LET a == parse_amount(text)
           IN  /\ IsOverThreshold(decision) <=> (a # None /\ a.n >= 8000)
               /\ (a = None /\ IsDecision(decision))
                    => decision.action # "qualified"

\* exactly 8000 qualifies, next to a no-unfiled phrase
C5_Witness ==
    /\ EngineDone
    /\ text = PyStr("8K all filed")
    /\ IsOverThreshold(decision)
    /\ decision.qualified.amount = 8000

---------------------------------------------------------------------------
(* C6 *)

DetectorFlag(txt) == IF detect_state_issue(txt) THEN "yes" ELSE "unknown"

\* C6 as stated: state_issue is never "no", is "unknown" in the escalate
\* decision, and in every other decision is the detector's result.
C6_AsStated ==
    (EngineDone /\ IsDecision(decision))
        => /\ decision.qualified.state_issue # "no"
           /\ decision.action = "escalate"
                => decision.qualified.state_issue = "unknown"
           /\ decision.action # "escalate"
                => decision.qualified.state_issue = DetectorFlag(text)

\* C6: state_issue is never "no", is "unknown" in the escalate decision and
\* in the default-clarify decision, and in every other decision is the
\* detector's result.
C6_StateIssue ==
    (EngineDone /\ IsDecision(decision))
        => /\ decision.qualified.state_issue \in { "yes", "unknown" }
           /\ decision.action = "escalate"
                => decision.qualified.state_issue = "unknown"
           /\ decision.notes = "primary_clarify"
                => decision.qualified.state_issue = "unknown"
           /\ (decision.action # "escalate" /\ decision.notes # "primary_clarify")
                => decision.qualified.state_issue = DetectorFlag(text)

\* a decision with an amount reports the state issue the text mentions
C6_Witness ==
    /\ EngineDone
    /\ text = PyStr("state taxes 6000")
    /\ decision.notes = "mid_band_send_booking"
    /\ decision.qualified.state_issue = "yes"

---------------------------------------------------------------------------
(* C7 *)

\* the value under key k of a JSON object, Absent without it
Field(json, k) ==
    IF json.kind = "dict" /\ k \in DOMAIN json.items THEN json.items[k]
    ELSE Absent

\* missing, null or empty
Blank(v) == v \in { Absent, None, EmptyDict, PyStr("") }

NoText(json) ==
    Blank(Field(json, "message")) \/ Blank(Field(Field(json, "message"), "text"))

NoLead(json) == Blank(Field(json, "lead"))

\* C7: for a JSON body whose message or message.text is missing, null or
\* empty, whatever context it carries, the request does not fail: the text
\* is empty, the name is the default one when lead is missing, null or
\* empty, and the caller receives the default-clarify decision.
C7_AsStated ==
    (pc = "responded" /\ body.kind \in { "dict", "none" } /\ NoText(body))
        => /\ ~server_error
           /\ response.status = 200
           /\ IsDefaultClarify(response.body)
           /\ ~Truthy(text)
           /\ NoLead(body) => name = PyStr("there")

---------------------------------------------------------------------------
(* C8 *)

HasDigit(s) == \E i \in 1 .. Len(s) : IsDigit(CharAt(s, i))

FirstDigitAt(u) ==
    CHOOSE i \in 1 .. Len(u) :
        IsDigit(CharAt(u, i)) /\ \A j \in 1 .. (i - 1) : ~IsDigit(CharAt(u, j))

\* the last digit of the run of digits that starts at the first digit
RunLast(u) ==
    CHOOSE j \in FirstDigitAt(u) .. Len(u) :
        /\ \A q \in FirstDigitAt(u) .. j : IsDigit(CharAt(u, q))
        /\ j = Len(u) \/ ~IsDigit(CharAt(u, j + 1))

\* the decimal value of the first run of digits
FirstNumber(u) ==
    LET first == FirstDigitAt(u)
        value[q \in (first - 1) .. RunLast(u)] ==
            IF q = first - 1 THEN 0
            ELSE 10 * value[q - 1] + DigitValue[CharAt(u, q)]
    IN  value[RunLast(u)]

\* a k or K follows the first run of digits, after whitespace at most
HasKSuffix(u) ==
    \E q \in (RunLast(u) + 1) .. Len(u) :
        /\ CharAt(u, q) \in { "k", "K" }
        /\ \A w \in (RunLast(u) + 1) .. (q - 1) : IsSpace(CharAt(u, w))

\* numbers that come later in a text
LaterNumbers == { "x2", " and 9k", "x$1,000" }

\* C8: parse_amount returns None exactly when the text has no digit;
\* otherwise it returns the non-negative integer of the first run of digits
\* of the text without its commas, times 1000 exactly when a k or K follows
\* that run; a number later in the text does not change the result; and the
\* five formats of the docstring all give 12000.
C8_ParseAmount ==
    pc = "amount_done"
        => LET s == TextOf(text)
               u == remove(s, ",")
           IN  /\ parsed = None <=> ~HasDigit(s)
               /\ HasDigit(s) =>
                    /\ parsed.kind = "int"
                    /\ parsed.n >= 0
                    /\ parsed.n = FirstNumber(u)
                                    * (IF HasKSuffix(u) THEN 1000 ELSE 1)
                    /\ \A later \in LaterNumbers :
                          parse_amount(PyStr(s \o later)) = parsed
               /\ s \in DocstringTexts => parsed = PyInt(12000)

\* an upper-case suffix multiplies the first number, the later one is ignored
C8_Witness ==
    /\ pc = "amount_done"
    /\ text = PyStr("2K1")
    /\ parsed = PyInt(2000)

---------------------------------------------------------------------------
(* C9 *)

HasForwardFlag(d) == "forward_queued" \in DOMAIN d

\* C9: a forward is queued, and forward_queued set, only when a webhook URL
\* is configured and the decision's route is woo_booking; it starts only
\* after the response with the decision is out; and whatever the POST ends
\* with, the caller has the same decision with status 200 and no exception
\* reaches the server.
C9_FireAndForget ==
    /\ (tasks # << >> \/ post # "none" \/ HasForwardFlag(decision))
          => /\ WOO_WEBHOOK_URL # ""
             /\ IsDecision(decision)
             /\ "route" \in DOMAIN decision
             /\ decision.route = "woo_booking"
             /\ HasForwardFlag(decision)
    /\ post # "none"
          => /\ pc = "responded"
             /\ response = [status |-> 200, body |-> decision]
    /\ post \in PostOutcomes
          => /\ response.status = 200
             /\ response.body
                  = WithForwardQueued(_build_response(payload, text, name))
             /\ ~server_error

\* the POST timed out and the caller has its decision
C9_Witness ==
    /\ post = "timeout"
    /\ response.status = 200
    /\ response.body.action = "qualified"
    /\ HasForwardFlag(response.body)

---------------------------------------------------------------------------
(* C10 *)

\* C10: on both endpoints, a request whose Authorization header is missing
\* or is not "Bearer <API_KEY>" never has its body read, never gets a
\* decision and never queues a forward; its response is 401.
C10_AuthFirst ==
    (pc # "idle" /\ authorization # PyStr("Bearer " \o API_KEY))
        => /\ pc \in { "auth", "responded" }
           /\ body = Unread
           /\ payload = Unread
           /\ decision = NoDecision
           /\ tasks = << >>
           /\ post = "none"
           /\ pc = "responded" => response = Unauthorized

\* a wrong token on the alias endpoint is answered 401
C10_Witness ==
    /\ pc = "responded"
    /\ endpoint = "/gene/woofallback1"
    /\ authorization = PyStr("Bearer wrong")
    /\ response.status = 401

=============================================================================
